---------------------------- MODULE Spec2Model ----------------------------
(***************************************************************************)
(* d3-template: the window/event state machine (app.rs, lib.rs), the       *)
(* first-person camera (camera.rs), the renderer (renderer.rs) and the     *)
(* mesh (mesh.rs).                                                         *)
(*                                                                         *)
(* Numbers.  f32 lengths are fixed-point integers in units of 1/Unit, so   *)
(* the unit vector Vec3::Y is <<0, Unit, 0>>.  Angles are integers in      *)
(* quarter turns (pi/2), so that sin and cos are exact table lookups; the  *)
(* initial yaw -FRAC_PI_2 is -1.  Time is an integer number of seconds.    *)
(* An aspect ratio (a quotient of two u32 converted to f32) is the         *)
(* quotient in lowest terms, <<numerator, denominator>>.                   *)
(***************************************************************************)
EXTENDS Integers, Sequences, FiniteSets, TLC

VARIABLES
    load_state,   \* AppLoadState: "Unloaded" or "Loaded"
    window,       \* the Arc<Window> shared by AppLoadState::Loaded and App
    app,          \* the App of AppLoadState::Loaded
    proc,         \* the process: "running", "panicked", or "exited" once
                  \* event_loop.exit() has ended run_app
    now,          \* the monotonic clock read by Instant::now()
    created,      \* how many times resumed() has built a window and an App
    last_event,   \* the event the last handler call was given
    calls,        \* the calls the last handler made, in order
    frame         \* the last render pass of this App and what it drew

vars == <<load_state, window, app, proc, now, created,
          last_event, calls, frame>>

----------------------------------------------------------------------------
(* Bounds of the model *)

\* the clock stops advancing here
MaxTime == 1
\* largest |yaw| and |pitch| (quarter turns) pointer motion is fed up to
MaxAngle == 1
\* how many times the host delivers `resumed`
MaxResumes == 2
\* the longest frame, in seconds, handed to Camera::update_position on its own
MaxDt == 2
\* the most vertices and the most indices of a mesh handed to Mesh::new
MaxVertices == 4
MaxIndices == 4

(* Program constants *)

\* fixed-point scale: 1.0 is Unit
Unit == 1000
\* camera.rs:135, the speed constant 5.0
Speed == 5
\* radians per pixel-second, in quarter turns (the spec names it only)
Sensitivity == 1

----------------------------------------------------------------------------
(* Vec3 arithmetic (glam), on fixed-point triples *)

Abs(x) == IF x < 0 THEN -x ELSE x

\* division rounding toward zero, as symmetric for both signs
DivT(a, b) == IF a < 0 THEN -((-a) \div b) ELSE a \div b

RECURSIVE ISqrtIn(_, _, _)
ISqrtIn(lo, hi, s) ==
    IF lo >= hi THEN lo
    ELSE LET mid == (lo + hi + 1) \div 2
         IN  IF mid * mid <= s THEN ISqrtIn(mid, hi, s)
             ELSE ISqrtIn(lo, mid - 1, s)

\* the integer square root
ISqrt(s) == ISqrtIn(0, 4 * Unit, s)

Vec3_ZERO == <<0, 0, 0>>
Vec3_Y == <<0, Unit, 0>>

VAdd(a, b) == <<a[1] + b[1], a[2] + b[2], a[3] + b[3]>>
VSub(a, b) == <<a[1] - b[1], a[2] - b[2], a[3] - b[3]>>
VDot(a, b) == a[1] * b[1] + a[2] * b[2] + a[3] * b[3]

\* a.cross(b) of two fixed-point vectors
VCross(a, b) ==
    << DivT(a[2] * b[3] - a[3] * b[2], Unit),
       DivT(a[3] * b[1] - a[1] * b[3], Unit),
       DivT(a[1] * b[2] - a[2] * b[1], Unit) >>

\* the length of a fixed-point vector
VLength(v) == ISqrt(VDot(v, v))

\* v.normalize_or_zero()
normalize_or_zero(v) ==
    LET len == VLength(v)
    IN  IF len = 0 THEN Vec3_ZERO
        ELSE << DivT(v[1] * Unit, len), DivT(v[2] * Unit, len),
                DivT(v[3] * Unit, len) >>

\* cos and sin of an angle given in quarter turns
Cos(q) == CASE q % 4 = 0 -> Unit [] q % 4 = 2 -> -Unit [] OTHER -> 0
Sin(q) == CASE q % 4 = 1 -> Unit [] q % 4 = 3 -> -Unit [] OTHER -> 0

RECURSIVE GCD(_, _)
GCD(a, b) == IF b = 0 THEN a ELSE GCD(b, a % b)

----------------------------------------------------------------------------
(* camera.rs *)

\* PhysicalSize<u32>
PhysicalSize(w, h) == [width |-> w, height |-> h]

\* width as f32 / height as f32; a zero height gives inf (or NaN for 0/0)
calculate_aspect_ratio(size) ==
    IF size.height = 0
    THEN (IF size.width = 0 THEN <<0, 0>> ELSE <<1, 0>>)
    ELSE LET g == GCD(size.width, size.height)
         IN  <<size.width \div g, size.height \div g>>

Camera_new(eye, yaw, pitch, size) ==
    [ eye |-> eye, up |-> Vec3_Y, yaw |-> yaw, pitch |-> pitch,
      aspect_ratio |-> calculate_aspect_ratio(size) ]

Camera_forward(self) ==
    << DivT(Cos(self.yaw) * Cos(self.pitch), Unit),
       Sin(self.pitch),
       DivT(Sin(self.yaw) * Cos(self.pitch), Unit) >>

\* proj * view: the matrix is the function of the look-at parameters (eye,
\* target, up) and of the perspective parameters (45 degrees, aspect, 0.01)
\* that this record stands for; the two constants are the same in every call
Camera_view_projection(self) ==
    [ eye |-> self.eye,
      target |-> VAdd(Camera_forward(self), self.eye),
      up |-> self.up,
      aspect |-> self.aspect_ratio ]

\* the contents the camera's uniform buffer is created with
Camera_create_buffer(self) == Camera_view_projection(self)

\* a resize that scales the previous ratio instead of overwriting it
Camera_resize_scaled(self, size) ==
    LET r == calculate_aspect_ratio(size)
        n == self.aspect_ratio[1] * r[1]
        d == self.aspect_ratio[2] * r[2]
    IN  [self EXCEPT !.aspect_ratio = <<n \div GCD(n, d), d \div GCD(n, d)>>]

Camera_resize(self, size) ==
    [self EXCEPT !.aspect_ratio = calculate_aspect_ratio(size)]

KeyDelta(keys_down, key, v) == IF key \in keys_down THEN v ELSE Vec3_ZERO

\* Camera_update_position with the KeyS arm adding `forward` as the KeyW arm
\* does
Camera_update_position_additive(self, keys_down, dt) ==
    LET forward == Camera_forward(self)
        right == VCross(forward, self.up)
        d1 == KeyDelta(keys_down, "KeyW", forward)
        d2 == VAdd(d1, KeyDelta(keys_down, "KeyS", forward))
        d3 == VAdd(d2, KeyDelta(keys_down, "KeyD", right))
        d4 == VSub(d3, KeyDelta(keys_down, "KeyA", right))
        d5 == VAdd(d4, KeyDelta(keys_down, "Space", self.up))
        delta == VSub(d5, KeyDelta(keys_down, "ShiftLeft", self.up))
        n == normalize_or_zero(delta)
    IN  [self EXCEPT !.eye = VAdd(self.eye,
            <<Speed * n[1] * dt, Speed * n[2] * dt, Speed * n[3] * dt>>)]

\* Camera_update_position moving along the sum of the directions as it is,
\* not normalized
Camera_update_position_unnormalized(self, keys_down, dt) ==
    LET forward == Camera_forward(self)
        right == VCross(forward, self.up)
        d1 == KeyDelta(keys_down, "KeyW", forward)
        d2 == VSub(d1, KeyDelta(keys_down, "KeyS", forward))
        d3 == VAdd(d2, KeyDelta(keys_down, "KeyD", right))
        d4 == VSub(d3, KeyDelta(keys_down, "KeyA", right))
        d5 == VAdd(d4, KeyDelta(keys_down, "Space", self.up))
        n == VSub(d5, KeyDelta(keys_down, "ShiftLeft", self.up))
    IN  [self EXCEPT !.eye = VAdd(self.eye,
            <<Speed * n[1] * dt, Speed * n[2] * dt, Speed * n[3] * dt>>)]

Camera_update_position(self, keys_down, dt) ==
    LET forward == Camera_forward(self)
        right == VCross(forward, self.up)
        d1 == KeyDelta(keys_down, "KeyW", forward)
        d2 == VSub(d1, KeyDelta(keys_down, "KeyS", forward))
        d3 == VAdd(d2, KeyDelta(keys_down, "KeyD", right))
        d4 == VSub(d3, KeyDelta(keys_down, "KeyA", right))
        d5 == VAdd(d4, KeyDelta(keys_down, "Space", self.up))
        delta == VSub(d5, KeyDelta(keys_down, "ShiftLeft", self.up))
        n == normalize_or_zero(delta)
    IN  [self EXCEPT !.eye = VAdd(self.eye,
            <<Speed * n[1] * dt, Speed * n[2] * dt, Speed * n[3] * dt>>)]

\* not in camera.rs; app.rs:142 calls it
Camera_update_rotation_angles(self, delta, dt) ==
    [self EXCEPT !.yaw = self.yaw + delta[1] * Sensitivity * dt,
                 !.pitch = self.pitch - delta[2] * Sensitivity * dt]

----------------------------------------------------------------------------
(* mesh.rs *)

Vertex(pos, color) == [pos |-> pos, color |-> color]

Mesh_new(vertices, indices) ==
    [ vertex_buffer |-> vertices,
      index_buffer |-> indices,
      count |-> Len(vertices) ]

----------------------------------------------------------------------------
(* renderer.rs *)

\* the width and height of the SurfaceConfiguration built for a window size
Renderer_create_surface_config(size) ==
    [width |-> size.width, height |-> size.height]

\* surface_config is the stored configuration, surface the configuration
\* last applied to the live surface by surface.configure
Renderer_new(inner_size, camera) ==
    LET config == Renderer_create_surface_config(inner_size)
    IN  [ surface |-> config,
          surface_config |-> config,
          camera_buffer |-> Camera_create_buffer(camera),
          mesh |-> Mesh_new(
              << Vertex(<<0, 5, 0>>, <<1, 0, 0>>),
                 Vertex(<<-5, -5, 0>>, <<0, 1, 0>>),
                 Vertex(<<5, -5, 0>>, <<0, 0, 1>>) >>,
              <<0, 1, 2>>) ]

Renderer_update_camera_buffer(self, view_proj) ==
    [self EXCEPT !.camera_buffer = view_proj]

\* a resize that clamps a zero dimension to 1 instead of asserting
Renderer_resize_clamped(self, size) ==
    LET config == [self.surface_config EXCEPT
                      !.width = IF size.width > 0 THEN size.width ELSE 1,
                      !.height = IF size.height > 0 THEN size.height ELSE 1]
    IN  [ renderer |-> [self EXCEPT !.surface_config = config,
                                    !.surface = config],
          panic |-> "" ]

\* a resize that stores the new configuration without surface.configure
Renderer_resize_unconfigured(self, size) ==
    IF ~(size.width > 0)
    THEN [renderer |-> self, panic |-> "cannot resize to zero width"]
    ELSE IF ~(size.height > 0)
    THEN [renderer |-> self, panic |-> "cannot resize to zero height"]
    ELSE [ renderer |-> [self EXCEPT !.surface_config.width = size.width,
                                     !.surface_config.height = size.height],
           panic |-> "" ]

\* [renderer, panic]: the asserts fail before any field is written
Renderer_resize(self, size) ==
    IF ~(size.width > 0)
    THEN [renderer |-> self, panic |-> "cannot resize to zero width"]
    ELSE IF ~(size.height > 0)
    THEN [renderer |-> self, panic |-> "cannot resize to zero height"]
    ELSE LET config == [self.surface_config EXCEPT !.width = size.width,
                                                   !.height = size.height]
         IN  [ renderer |-> [self EXCEPT !.surface_config = config,
                                         !.surface = config],
               panic |-> "" ]

Op(name, arg) == [op |-> name, arg |-> arg]

\* a render() that submits the command buffer while the pass is still open
\* and presents whatever the acquisition gave
Renderer_render_unscoped(self, acquired) ==
    IF acquired # "Ok"
    THEN [ result |-> "Err",
           ops |-> << Op("get_current_texture", acquired),
                      Op("present", "output") >> ]
    ELSE [ result |-> "Ok",
           ops |-> << Op("get_current_texture", acquired),
                      Op("begin_render_pass",
                         [ width |-> self.surface.width,
                           height |-> self.surface.height,
                           load |-> "Clear", store |-> "Store" ]),
                      Op("set_pipeline", "pipeline"),
                      Op("set_bind_group", <<0, self.camera_buffer>>),
                      Op("set_vertex_buffer", <<0, self.mesh.vertex_buffer>>),
                      Op("set_index_buffer", self.mesh.index_buffer),
                      Op("draw", [vertices |-> <<0, self.mesh.count>>,
                                  instances |-> <<0, 1>>]),
                      Op("submit", 1),
                      Op("end_render_pass", "drop"),
                      Op("present", "output") >> ]

\* [result, ops]: acquired is what surface.get_current_texture() returns;
\* ops are the GPU operations of the call, in order
Renderer_render(self, acquired) ==
    IF acquired # "Ok"
    THEN [ result |-> "Err", ops |-> <<Op("get_current_texture", acquired)>> ]
    ELSE [ result |-> "Ok",
           ops |-> << Op("get_current_texture", acquired),
                      Op("begin_render_pass",
                         [ width |-> self.surface.width,
                           height |-> self.surface.height,
                           load |-> "Clear", store |-> "Store" ]),
                      Op("set_pipeline", "pipeline"),
                      Op("set_bind_group", <<0, self.camera_buffer>>),
                      Op("set_vertex_buffer", <<0, self.mesh.vertex_buffer>>),
                      Op("set_index_buffer", self.mesh.index_buffer),
                      Op("draw", [vertices |-> <<0, self.mesh.count>>,
                                  instances |-> <<0, 1>>]),
                      Op("end_render_pass", "drop"),
                      Op("submit", 1),
                      Op("present", "output") >> ]

----------------------------------------------------------------------------
(* app.rs: App *)

\* [app, panic]: device is the outcome of Renderer::new
App_new(inner_size, device, t) ==
    LET camera == Camera_new(<<0, 0, 3 * Unit>>, -1, 0, inner_size)
    IN  [ app |-> [ renderer |-> Renderer_new(inner_size, camera),
                    camera |-> camera,
                    keys_down |-> {},
                    last_frame |-> t,
                    delta_time |-> 0,
                    has_focus |-> FALSE ],
          panic |-> IF device = "Ok" THEN "" ELSE "failed to initialize app" ]

App_render(self, acquired) == Renderer_render(self.renderer, acquired)

\* an update that moves the camera and does not upload the matrix
App_update_no_upload(self, t) ==
    LET dt == t - self.last_frame
    IN  [self EXCEPT
            !.last_frame = t,
            !.delta_time = dt,
            !.camera = IF self.has_focus
                       THEN Camera_update_position(self.camera, self.keys_down, dt)
                       ELSE self.camera]

\* an update whose clock runs only while the pointer is captured
App_update_paused(self, t) ==
    LET dt == t - self.last_frame
        camera == IF self.has_focus
                  THEN Camera_update_position(self.camera, self.keys_down, dt)
                  ELSE self.camera
    IN  [self EXCEPT
            !.last_frame = IF self.has_focus THEN t ELSE @,
            !.delta_time = IF self.has_focus THEN dt ELSE @,
            !.camera = camera,
            !.renderer = Renderer_update_camera_buffer(
                             self.renderer, Camera_view_projection(camera))]

App_update(self, t) ==
    LET dt == t - self.last_frame
        camera == IF self.has_focus
                  THEN Camera_update_position(self.camera, self.keys_down, dt)
                  ELSE self.camera
    IN  [self EXCEPT
            !.last_frame = t,
            !.delta_time = dt,
            !.camera = camera,
            !.renderer = Renderer_update_camera_buffer(
                             self.renderer, Camera_view_projection(camera))]

\* [window, panic]: grab is the outcome of
\* window.set_cursor_grab(CursorGrabMode::Locked), which not every platform
\* supports; releasing the grab succeeds everywhere
App_set_cursor_state(self, win, grab) ==
    IF self.has_focus
    THEN IF grab # "Ok"
         THEN [window |-> win, panic |-> "set_cursor_grab"]
         ELSE [ window |-> [win EXCEPT !.cursor_grab = "Locked",
                                       !.cursor_visible = FALSE],
                panic |-> "" ]
    ELSE [ window |-> [win EXCEPT !.cursor_grab = "None",
                                  !.cursor_visible = TRUE],
           panic |-> "" ]


\* a Resized arm that resizes the renderer and forgets the camera
App_on_resized_renderer_only(self, win, size) ==
    LET r == Renderer_resize(self.renderer, size)
    IN  IF r.panic # ""
        THEN [ app |-> self, window |-> win, panic |-> r.panic,
               calls |-> <<"Renderer::resize">> ]
        ELSE [ app |-> [self EXCEPT !.renderer = r.renderer],
               window |-> win, panic |-> "",
               calls |-> <<"Renderer::resize">> ]

\* the Resized arm: [app, window, panic, calls]
App_on_resized(self, win, size) ==
    LET r == Renderer_resize(self.renderer, size)
    IN  IF r.panic # ""
        THEN [ app |-> self, window |-> win, panic |-> r.panic,
               calls |-> <<"Renderer::resize">> ]
        ELSE [ app |-> [self EXCEPT !.renderer = r.renderer,
                                    !.camera = Camera_resize(self.camera, size)],
               window |-> win, panic |-> "",
               calls |-> <<"Renderer::resize", "Camera::resize">> ]

\* App_on_keyboard_input without the early return of an unidentified key:
\* the key is booked like a key code
App_on_keyboard_input_unfiltered(self, win, physical_key, state, grab) ==
    IF physical_key = "Escape"
    THEN LET a == [self EXCEPT !.has_focus = FALSE]
             c == App_set_cursor_state(a, win, grab)
         IN  [ app |-> a, window |-> c.window, panic |-> c.panic,
               calls |-> <<"set_cursor_state">> ]
    ELSE IF state = "Pressed"
    THEN [ app |-> [self EXCEPT !.keys_down = @ \cup {physical_key}],
           window |-> win, panic |-> "", calls |-> <<"keys_down.insert">> ]
    ELSE [ app |-> [self EXCEPT !.keys_down = @ \ {physical_key}],
           window |-> win, panic |-> "", calls |-> <<"keys_down.remove">> ]

\* App_on_keyboard_input booking presses and releases only while the
\* pointer is captured
App_on_keyboard_input_focused(self, win, physical_key, state, grab) ==
    IF physical_key = "Unidentified"
    THEN [app |-> self, window |-> win, panic |-> "", calls |-> <<"eprintln">>]
    ELSE IF physical_key = "Escape"
    THEN LET a == [self EXCEPT !.has_focus = FALSE]
             c == App_set_cursor_state(a, win, grab)
         IN  [ app |-> a, window |-> c.window, panic |-> c.panic,
               calls |-> <<"set_cursor_state">> ]
    ELSE IF ~self.has_focus
    THEN [app |-> self, window |-> win, panic |-> "", calls |-> <<>>]
    ELSE IF state = "Pressed"
    THEN [ app |-> [self EXCEPT !.keys_down = @ \cup {physical_key}],
           window |-> win, panic |-> "", calls |-> <<"keys_down.insert">> ]
    ELSE [ app |-> [self EXCEPT !.keys_down = @ \ {physical_key}],
           window |-> win, panic |-> "", calls |-> <<"keys_down.remove">> ]

\* the KeyboardInput arm
App_on_keyboard_input(self, win, physical_key, state, grab) ==
    IF physical_key = "Unidentified"
    THEN [app |-> self, window |-> win, panic |-> "", calls |-> <<"eprintln">>]
    ELSE IF physical_key = "Escape"
    THEN LET a == [self EXCEPT !.has_focus = FALSE]
             c == App_set_cursor_state(a, win, grab)
         IN  [ app |-> a, window |-> c.window, panic |-> c.panic,
               calls |-> <<"set_cursor_state">> ]
    ELSE IF state = "Pressed"
    THEN [ app |-> [self EXCEPT !.keys_down = @ \cup {physical_key}],
           window |-> win, panic |-> "", calls |-> <<"keys_down.insert">> ]
    ELSE [ app |-> [self EXCEPT !.keys_down = @ \ {physical_key}],
           window |-> win, panic |-> "", calls |-> <<"keys_down.remove">> ]

\* a MouseInput arm that matches any ElementState
App_on_mouse_input_any(self, win, state, grab) ==
    LET a == [self EXCEPT !.has_focus = TRUE]
        c == App_set_cursor_state(a, win, grab)
    IN  [ app |-> a, window |-> c.window, panic |-> c.panic,
          calls |-> <<"set_cursor_state">> ]

\* a MouseInput arm that takes the focus and leaves the cursor as it is
App_on_mouse_input_uncaptured(self, win, state, grab) ==
    IF state = "Pressed"
    THEN [ app |-> [self EXCEPT !.has_focus = TRUE], window |-> win,
           panic |-> "", calls |-> <<>> ]
    ELSE [app |-> self, window |-> win, panic |-> "", calls |-> <<>>]

\* the MouseInput arm, which matches state: ElementState::Pressed only
App_on_mouse_input(self, win, state, grab) ==
    IF state = "Pressed"
    THEN LET a == [self EXCEPT !.has_focus = TRUE]
             c == App_set_cursor_state(a, win, grab)
         IN  [ app |-> a, window |-> c.window, panic |-> c.panic,
               calls |-> <<"set_cursor_state">> ]
    ELSE [app |-> self, window |-> win, panic |-> "", calls |-> <<>>]

App_handle_window_event(self, win, event, grab) ==
    CASE event.kind = "Resized" -> App_on_resized(self, win, event.size)
      [] event.kind = "KeyboardInput" ->
            App_on_keyboard_input(self, win, event.key, event.state, grab)
      [] event.kind = "MouseInput" ->
            App_on_mouse_input(self, win, event.state, grab)
      [] OTHER -> [app |-> self, window |-> win, panic |-> "", calls |-> <<>>]

\* App_handle_device_event without the has_focus guard of the MouseMotion arm
App_handle_device_event_unguarded(self, event) ==
    IF event.kind = "MouseMotion"
    THEN [self EXCEPT !.camera = Camera_update_rotation_angles(
                                     self.camera, event.delta, self.delta_time)]
    ELSE self

App_handle_device_event(self, event) ==
    IF event.kind = "MouseMotion" /\ self.has_focus
    THEN [self EXCEPT !.camera = Camera_update_rotation_angles(
                                     self.camera, event.delta, self.delta_time)]
    ELSE self

----------------------------------------------------------------------------
(* app.rs: impl ApplicationHandler for AppLoadState *)

\* the values `window` and `app` hold while the state is Unloaded
NoWindow == "NoWindow"
NoApp == "NoApp"

\* the window event_loop.create_window returns, after request_redraw()
Window_new(id, inner_size) ==
    [ id |-> id, inner_size |-> inner_size,
      cursor_grab |-> "None", cursor_visible |-> TRUE,
      redraw_requested |-> TRUE ]

\* a resumed() that takes a second `resumed` for a suspension
AppLoadState_resumed_toggle(self, win, a, id, inner_size, device, t) ==
    IF self = "Loaded"
    THEN [ load_state |-> "Unloaded", window |-> win, app |-> a,
           panic |-> "", calls |-> <<>> ]
    ELSE [ load_state |-> "Loaded",
           window |-> Window_new(id, inner_size),
           app |-> App_new(inner_size, device, t).app,
           panic |-> App_new(inner_size, device, t).panic,
           calls |-> <<"create_window", "request_redraw", "App::new">> ]

\* resumed(): [load_state, window, app, panic, calls].  device is the
\* outcome of App::new; `expect` panics before *self is assigned
AppLoadState_resumed(self, win, a, id, inner_size, device, t) ==
    LET n == App_new(inner_size, device, t)
    IN  IF n.panic # ""
        THEN [ load_state |-> self, window |-> win, app |-> a,
               panic |-> n.panic,
               calls |-> <<"create_window", "request_redraw", "App::new">> ]
        ELSE [ load_state |-> "Loaded",
               window |-> Window_new(id, inner_size),
               app |-> n.app,
               panic |-> "",
               calls |-> <<"create_window", "request_redraw", "App::new">> ]

\* a RedrawRequested arm that drops the result of render()
AppLoadState_on_redraw_requested_ignoring(a, win, acquired, t) ==
    [ app |-> App_update(a, t),
      window |-> [win EXCEPT !.redraw_requested = TRUE],
      panic |-> "",
      calls |-> <<"App::render", "App::update", "request_redraw">>,
      ops |-> App_render(a, acquired).ops ]

\* a RedrawRequested arm that draws the frame and asks for no further one
AppLoadState_on_redraw_requested_once(a, win, acquired, t) ==
    LET r == App_render(a, acquired)
    IN  IF r.result # "Ok"
        THEN [ app |-> a, window |-> win, panic |-> "render",
               calls |-> <<"App::render">>, ops |-> r.ops ]
        ELSE [ app |-> App_update(a, t),
               window |-> win,
               panic |-> "",
               calls |-> <<"App::render", "App::update">>,
               ops |-> r.ops ]

\* the RedrawRequested arm: [app, window, panic, calls, ops]
AppLoadState_on_redraw_requested(a, win, acquired, t) ==
    LET r == App_render(a, acquired)
    IN  IF r.result # "Ok"
        THEN [ app |-> a, window |-> win, panic |-> "render",
               calls |-> <<"App::render">>, ops |-> r.ops ]
        ELSE [ app |-> App_update(a, t),
               window |-> [win EXCEPT !.redraw_requested = TRUE],
               panic |-> "",
               calls |-> <<"App::render", "App::update", "request_redraw">>,
               ops |-> r.ops ]

\* window_event() while Loaded: [app, window, panic, calls, ops, exit]
AppLoadState_window_event(a, win, event, acquired, grab, t) ==
    CASE event.kind = "CloseRequested" ->
            [ app |-> a, window |-> win, panic |-> "",
              calls |-> <<"event_loop.exit">>, ops |-> <<>>, exit |-> TRUE ]
      [] event.kind = "RedrawRequested" ->
            LET r == AppLoadState_on_redraw_requested(a, win, acquired, t)
            IN  [ app |-> r.app, window |-> r.window, panic |-> r.panic,
                  calls |-> r.calls, ops |-> r.ops, exit |-> FALSE ]
      [] OTHER ->
            LET r == App_handle_window_event(a, win, event, grab)
            IN  [ app |-> r.app, window |-> r.window, panic |-> r.panic,
                  calls |-> <<"handle_window_event">> \o r.calls,
                  ops |-> <<>>, exit |-> FALSE ]

----------------------------------------------------------------------------
(* The inputs: what the host event loop delivers *)

\* the sizes a created window can have (1920x1080 logical, scaled)
WindowSizes == {PhysicalSize(1, 1), PhysicalSize(2, 1)}
\* the sizes a Resized event carries
Sizes == WindowSizes \cup {PhysicalSize(1, 2), PhysicalSize(0, 1), PhysicalSize(1, 0)}

\* the physical keys the host reports; "Unidentified" is
\* PhysicalKey::Unidentified, the others are KeyCodes
PhysicalKeys == {"KeyW", "Escape", "Unidentified"}
ElementStates == {"Pressed", "Released"}
Deltas == {<<1, 0>>, <<0, 1>>}
Outcomes == {"Ok", "Err"}

Event(kind, size, key, state, delta) ==
    [kind |-> kind, size |-> size, key |-> key, state |-> state, delta |-> delta]

NoSize == PhysicalSize(0, 0)

WindowEvents ==
    {Event(k, NoSize, "", "", <<0, 0>>) :
        k \in {"CloseRequested", "RedrawRequested", "Focused"}}
    \cup {Event("Resized", s, "", "", <<0, 0>>) : s \in Sizes}
    \cup {Event("KeyboardInput", NoSize, k, st, <<0, 0>>) :
            k \in PhysicalKeys, st \in ElementStates}
    \cup {Event("MouseInput", NoSize, "", st, <<0, 0>>) : st \in ElementStates}

DeviceEvents ==
    {Event("MouseMotion", NoSize, "", "", d) : d \in Deltas}
    \cup {Event("Button", NoSize, "", "Pressed", <<0, 0>>)}

NoEvent == Event("", NoSize, "", "", <<0, 0>>)

\* the events whose handler makes a call of the host that can fail:
\* surface.get_current_texture() or window.set_cursor_grab()
Fallible(event) ==
    \/ event.kind = "RedrawRequested"
    \/ event.kind = "MouseInput" /\ event.state = "Pressed"

\* the window as the host hands it to the handler of event
Window_deliver(win, event) ==
    IF event.kind = "Resized"
    THEN [win EXCEPT !.inner_size = event.size]
    ELSE IF event.kind = "RedrawRequested"
    THEN [win EXCEPT !.redraw_requested = FALSE]
    ELSE win

\* the matrix in the uniform buffer bound by the render pass of ops
BoundViewProjection(ops) ==
    LET i == CHOOSE i \in 1..Len(ops) : ops[i].op = "set_bind_group"
    IN  ops[i].arg[2]

HasPass(ops) == \E i \in 1..Len(ops) : ops[i].op = "begin_render_pass"

----------------------------------------------------------------------------
(* lib.rs: run() starts the event loop on AppLoadState::Unloaded *)

Init ==
    /\ load_state = "Unloaded"
    /\ window = NoWindow
    /\ app = NoApp
    /\ proc = "running"
    /\ now = 0
    /\ created = 0
    /\ last_event = NoEvent
    /\ calls = <<>>
    /\ frame = [camera_at_update |-> NoApp, drawn |-> <<>>, ops |-> <<>>]

\* the host delivers `resumed`, at most `limit` times, for a window of one
\* of `sizes`
ResumedFrom(sizes, limit) ==
    /\ proc = "running"
    /\ created < limit
    /\ \E inner_size \in sizes, device \in Outcomes :
         \E r \in {AppLoadState_resumed(load_state, window, app, created + 1,
                                        inner_size, device, now)} :
             /\ load_state' = r.load_state
             /\ window' = r.window
             /\ app' = r.app
             /\ proc' = IF r.panic # "" THEN "panicked" ELSE "running"
             /\ calls' = r.calls
             /\ created' = created + 1
             /\ frame' = IF r.panic # "" THEN frame
                         ELSE [ camera_at_update |-> r.app.camera,
                                drawn |-> <<>>, ops |-> <<>> ]
    /\ last_event' = Event("Resumed", NoSize, "", "", <<0, 0>>)
    /\ UNCHANGED now

resumed == ResumedFrom(WindowSizes, MaxResumes)

\* a window_event() that matches CloseRequested before it looks at the
\* lifecycle state, so that an Unloaded program exits on it
WindowEventWith_closing(events, outcomes) ==
    /\ proc = "running"
    /\ \E event \in events :
         /\ last_event' = event
         /\ IF load_state # "Loaded"
            THEN /\ calls' = IF event.kind = "CloseRequested"
                           THEN <<"event_loop.exit">> ELSE <<>>
                 /\ proc' = IF event.kind = "CloseRequested"
                           THEN "exited" ELSE proc
                 /\ UNCHANGED <<load_state, window, app, frame>>
            ELSE \E outcome \in outcomes :
                   /\ Fallible(event) \/ outcome = "Ok"
                   /\ \E r \in {AppLoadState_window_event(
                                      app, Window_deliver(window, event), event,
                                      outcome, outcome, now)} :
                          /\ app' = r.app
                          /\ window' = r.window
                          /\ proc' = IF r.panic # "" THEN "panicked"
                                     ELSE IF r.exit THEN "exited"
                                     ELSE "running"
                          /\ calls' = r.calls
                          /\ frame' =
                               [ camera_at_update |->
                                     IF "App::update" \in {r.calls[i] : i \in 1..Len(r.calls)}
                                     THEN r.app.camera
                                     ELSE frame.camera_at_update,
                                 drawn |->
                                     IF HasPass(r.ops)
                                     THEN << [ view_proj |-> BoundViewProjection(r.ops),
                                               camera_at_update |-> frame.camera_at_update,
                                               camera_at_render |-> app.camera ] >>
                                     ELSE <<>>,
                                 ops |-> r.ops ]
                          /\ UNCHANGED load_state
    /\ UNCHANGED <<now, created>>

\* the host delivers one of the window events `events`; the calls of the
\* host that the handler makes end as one of `outcomes`
WindowEventWith(events, outcomes) ==
    /\ proc = "running"
    /\ \E event \in events :
         /\ last_event' = event
         /\ IF load_state # "Loaded"
            THEN /\ calls' = <<>>
                 /\ UNCHANGED <<load_state, window, app, proc, frame>>
            ELSE \E outcome \in outcomes :
                   /\ Fallible(event) \/ outcome = "Ok"
                   /\ \E r \in {AppLoadState_window_event(
                                      app, Window_deliver(window, event), event,
                                      outcome, outcome, now)} :
                          /\ app' = r.app
                          /\ window' = r.window
                          /\ proc' = IF r.panic # "" THEN "panicked"
                                     ELSE IF r.exit THEN "exited"
                                     ELSE "running"
                          /\ calls' = r.calls
                          /\ frame' =
                               [ camera_at_update |->
                                     IF "App::update" \in {r.calls[i] : i \in 1..Len(r.calls)}
                                     THEN r.app.camera
                                     ELSE frame.camera_at_update,
                                 drawn |->
                                     IF HasPass(r.ops)
                                     THEN << [ view_proj |-> BoundViewProjection(r.ops),
                                               camera_at_update |-> frame.camera_at_update,
                                               camera_at_render |-> app.camera ] >>
                                     ELSE <<>>,
                                 ops |-> r.ops ]
                          /\ UNCHANGED load_state
    /\ UNCHANGED <<now, created>>

WindowEventFrom(events) == WindowEventWith(events, Outcomes)

\* the host delivers a window event
window_event == WindowEventFrom(WindowEvents)

\* the host delivers one of the device events `events`
DeviceEventFrom(events) ==
    /\ proc = "running"
    /\ \E event \in events :
         /\ last_event' = event
         /\ IF load_state # "Loaded"
            THEN UNCHANGED app
            ELSE \E a \in {App_handle_device_event(app, event)} :
                     /\ Abs(a.camera.yaw) <= MaxAngle
                     /\ Abs(a.camera.pitch) <= MaxAngle
                     /\ app' = a
    /\ calls' = <<>>
    /\ frame' = [frame EXCEPT !.drawn = <<>>, !.ops = <<>>]
    /\ UNCHANGED <<load_state, window, proc, now, created>>

\* the host delivers a device event
device_event == DeviceEventFrom(DeviceEvents)

\* time passes, up to `limit`
TickTo(limit) ==
    /\ proc = "running"
    /\ now < limit
    /\ now' = now + 1
    /\ UNCHANGED <<load_state, window, app, proc, created,
                   last_event, calls, frame>>

Tick == TickTo(MaxTime)

Next == resumed \/ window_event \/ device_event \/ Tick

Spec == Init /\ [][Next]_vars

----------------------------------------------------------------------------
(* Reading the record of the last handler call *)

Loaded == load_state = "Loaded"
Running == proc = "running"

\* the last handler call was window_event on a Loaded state, with this kind
Handled(kind) == Loaded /\ last_event.kind = kind

\* render() of the last handler call returned Ok: it presented a frame
RenderOk == \E i \in 1..Len(frame.ops) : frame.ops[i].op = "present"

ZeroSize(size) == size.width = 0 \/ size.height = 0

----------------------------------------------------------------------------
(* C1: every render pass draws with the view-projection of the camera as   *)
(* it was at the end of the previous update (the initial camera before     *)
(* the first update); nothing that changed the camera since is in it.      *)
FrameLatency ==
    \A i \in 1..Len(frame.drawn) :
        frame.drawn[i].view_proj =
            Camera_view_projection(frame.drawn[i].camera_at_update)

\* a pass drawn after the camera had been resized since the last update,
\* followed by an update that moved the eye
FrameLatencyWitness ==
    /\ Loaded /\ Running
    /\ frame.drawn # <<>>
    /\ frame.drawn[1].camera_at_render # frame.drawn[1].camera_at_update
    /\ app.camera.eye # frame.drawn[1].camera_at_render.eye
    /\ frame.drawn[1].view_proj # Camera_view_projection(app.camera)

(* C2: a RedrawRequested handled while Loaded calls render() first,        *)
(* update() second and only after render() returned Ok, and requests the   *)
(* next redraw last; a failed render is followed by neither.               *)
RenderThenUpdate ==
    Handled("RedrawRequested") =>
        /\ Len(calls) >= 1 /\ calls[1] = "App::render"
        /\ \A i \in 1..Len(calls) :
              calls[i] = "App::update" => (i = 2 /\ RenderOk)
        /\ \A i \in 1..Len(calls) :
              calls[i] = "request_redraw" => (i = 3 /\ calls[2] = "App::update")
        /\ RenderOk =>
              /\ calls = <<"App::render", "App::update", "request_redraw">>
              /\ window.redraw_requested
        /\ ~RenderOk => (calls = <<"App::render">> /\ ~window.redraw_requested)

RenderThenUpdateWitness ==
    /\ Handled("RedrawRequested") /\ Running /\ RenderOk
    /\ calls = <<"App::render", "App::update", "request_redraw">>
    /\ app.delta_time > 0

(* C3: the state starts Unloaded, and once Loaded it stays Loaded.         *)
LoadedIsTerminal ==
    /\ load_state = "Unloaded"
    /\ [][load_state = "Loaded" => load_state' = "Loaded"]_vars

\* a second `resumed` was delivered to a Loaded state
LoadedIsTerminalWitness ==
    Loaded /\ created = 2 /\ last_event.kind = "Resumed"

(* C4: the window, the Camera and the Renderer are built at most once,     *)
(* also when `resumed` is delivered again.                                 *)
ConstructedAtMostOnce ==
    /\ created <= 1
    /\ Loaded => window.id = 1

(* C5: a failed surface-texture acquisition skips the frame and leaves     *)
(* the process running and Loaded.                                         *)
AcquireFailureIsRecoverable ==
    (Handled("RedrawRequested") /\ ~RenderOk) => Running

(* C6: a Resized event with a zero width or height panics in               *)
(* Renderer::resize before anything is written: Camera::resize is not      *)
(* reached, and no stored or live surface dimension is ever zero.          *)
ZeroResizeFails ==
    /\ Loaded =>
          /\ app.renderer.surface_config.width > 0
          /\ app.renderer.surface_config.height > 0
          /\ app.renderer.surface.width > 0
          /\ app.renderer.surface.height > 0
          /\ app.camera.aspect_ratio[2] > 0
    /\ (Handled("Resized") /\ ZeroSize(last_event.size)) =>
          /\ proc = "panicked"
          /\ calls = <<"handle_window_event", "Renderer::resize">>

ZeroResizeFailsWitness ==
    /\ Handled("Resized") /\ last_event.size = PhysicalSize(1, 0)
    /\ proc = "panicked"
    /\ app.renderer.surface_config.width = 2

(* C7: a Resized(w, h) with w, h > 0 calls Renderer::resize and then       *)
(* Camera::resize; afterwards the stored configuration is w x h and is     *)
(* the one applied to the live surface, which render() targets.            *)
ResizeReconfigures ==
    /\ (Handled("Resized") /\ ~ZeroSize(last_event.size)) =>
          /\ Running
          /\ calls = <<"handle_window_event", "Renderer::resize", "Camera::resize">>
          /\ app.renderer.surface_config.width = last_event.size.width
          /\ app.renderer.surface_config.height = last_event.size.height
    /\ Loaded => app.renderer.surface = app.renderer.surface_config
    /\ \A i \in 1..Len(frame.ops) :
          frame.ops[i].op = "begin_render_pass" =>
              /\ frame.ops[i].arg.width = window.inner_size.width
              /\ frame.ops[i].arg.height = window.inner_size.height

\* no window is created 1 x 2, so this configuration was set by the resize
ResizeReconfiguresWitness ==
    /\ Handled("Resized") /\ Running
    /\ last_event.size = PhysicalSize(1, 2)
    /\ app.renderer.surface = PhysicalSize(1, 2)

(* C8: after Camera::resize(size) the aspect ratio is width / height of    *)
(* size, whatever it was before.                                           *)
AspectAfterResize ==
    (Handled("Resized") /\ Running) =>
        /\ app.camera.aspect_ratio[2] > 0
        /\ app.camera.aspect_ratio[1] * last_event.size.height
              = app.camera.aspect_ratio[2] * last_event.size.width

AspectAfterResizeWitness ==
    /\ Handled("Resized") /\ Running
    /\ last_event.size = PhysicalSize(1, 2)
    /\ app.camera.aspect_ratio = <<1, 2>>
    /\ app.renderer.camera_buffer.aspect = <<2, 1>>

(* C9: after the Escape key event has been handled, keys_down is empty.    *)
KeysClearedOnFocusLoss ==
    (Handled("KeyboardInput") /\ last_event.key = "Escape") =>
        app.keys_down = {}

(* C10: has_focus is false in a new App, is set by a mouse-button press,   *)
(* is cleared by an Escape key event, and is changed by nothing else.      *)
FocusToggle ==
    [][ (load_state' = "Loaded" /\ proc' = "running") =>
            app'.has_focus =
                IF created' # created THEN FALSE
                ELSE IF last_event'.kind = "MouseInput"
                        /\ last_event'.state = "Pressed" THEN TRUE
                ELSE IF last_event'.kind = "KeyboardInput"
                        /\ last_event'.key = "Escape" THEN FALSE
                ELSE app.has_focus ]_vars

\* focus is held across a mouse-button release
FocusToggleWitness ==
    /\ Loaded /\ Running /\ app.has_focus
    /\ last_event.kind = "MouseInput" /\ last_event.state = "Released"

\* ---------------------------------------------------------------------
\* C11: a keyboard event whose physical key is unidentified is dropped: the
\* step that handles it changes neither the App (keys_down, has_focus, the
\* camera, the clock) nor the window (cursor grab and visibility), writes a
\* diagnostic and leaves the process running.
UnidentifiedKeyDropped ==
    [][ (last_event'.kind = "KeyboardInput" /\ last_event'.key = "Unidentified")
        => /\ app' = app
           /\ window' = window
           /\ load_state' = load_state
           /\ proc' = "running"
           /\ (Loaded => calls' = <<"handle_window_event", "eprintln">>) ]_vars

\* an unidentified key was released while a key is held and the pointer is
\* captured
UnidentifiedKeyDroppedWitness ==
    /\ Loaded /\ Running
    /\ Handled("KeyboardInput")
    /\ last_event.key = "Unidentified" /\ last_event.state = "Released"
    /\ app.has_focus
    /\ app.keys_down = {"KeyW"}
    /\ window.cursor_grab = "Locked"
    /\ calls = <<"handle_window_event", "eprintln">>

\* ---------------------------------------------------------------------
\* C12: the camera moves and turns only while the pointer is captured: a
\* step of an App whose has_focus is false (a redraw with its update, a
\* key event, a pointer motion, any other event to the same App) leaves the
\* camera's eye, yaw and pitch as they were.
CameraStillWithoutFocus ==
    [][ (Loaded /\ ~app.has_focus /\ created' = created)
        => /\ app'.camera.eye = app.camera.eye
           /\ app'.camera.yaw = app.camera.yaw
           /\ app'.camera.pitch = app.camera.pitch ]_vars

\* a pointer motion reached an App without focus that holds KeyW and whose
\* last frame took time: neither the update nor the motion moved the camera
CameraStillWithoutFocusWitness ==
    /\ Loaded /\ Running
    /\ ~app.has_focus
    /\ last_event.kind = "MouseMotion"
    /\ "KeyW" \in app.keys_down
    /\ app.delta_time > 0
    /\ app.camera.eye = <<0, 0, 3 * Unit>>
    /\ app.camera.yaw = -1 /\ app.camera.pitch = 0

----------------------------------------------------------------------------
(* Camera::update_position on its own: a camera at the initial eye, looking *)
(* along any quarter turn of yaw and pitch, is moved once with any set of   *)
(* held keys and any frame time.  `frame` keeps the camera as it was and    *)
(* the dt of the call.                                                      *)

\* the six keys update_position reads, and one it does not
MovementKeys == {"KeyW", "KeyS", "KeyD", "KeyA", "Space", "ShiftLeft"}
CameraKeys == MovementKeys \cup {"KeyQ"}

Yaws == -2..1
Pitches == -MaxAngle..MaxAngle

CameraInit ==
    /\ load_state = "Unloaded"
    /\ window = NoWindow
    /\ proc = "running"
    /\ now = 0
    /\ created = 0
    /\ last_event = NoEvent
    /\ calls = <<>>
    /\ \E yaw \in Yaws, pitch \in Pitches, keys_down \in SUBSET CameraKeys :
         \E camera \in {Camera_new(<<0, 0, 3 * Unit>>, yaw, pitch,
                                   PhysicalSize(1, 1))} :
            /\ app = [camera |-> camera, keys_down |-> keys_down]
            /\ frame = [camera_before |-> camera, dt |-> 0]

update_position ==
    /\ calls = <<>>
    /\ \E dt \in 0..MaxDt :
         /\ app' = [app EXCEPT !.camera =
                        Camera_update_position(app.camera, app.keys_down, dt)]
         /\ frame' = [camera_before |-> app.camera, dt |-> dt]
    /\ calls' = <<"update_position">>
    /\ UNCHANGED <<load_state, window, proc, now, created, last_event>>

CameraNext == update_position

CameraSpec == CameraInit /\ [][CameraNext]_vars

\* update_position has run
Moved == calls = <<"update_position">>

\* how far it moved the eye
Displacement == VSub(app.camera.eye, frame.camera_before.eye)

\* +1, 0 or -1: which of a key and its opposite is held alone
NetKey(keys_down, plus, minus) ==
    (IF plus \in keys_down THEN 1 ELSE 0) - (IF minus \in keys_down THEN 1 ELSE 0)

Sign(x) == IF x > 0 THEN 1 ELSE IF x < 0 THEN -1 ELSE 0

\* ---------------------------------------------------------------------
\* C13: update_position leaves the eye where it was when the held keys ask
\* for no net direction: no key, no movement key, or every held movement
\* key together with its opposite (W/S, A/D, Space/ShiftLeft); for every dt.
ZeroDirectionNoMove ==
    ( /\ Moved
      /\ NetKey(app.keys_down, "KeyW", "KeyS") = 0
      /\ NetKey(app.keys_down, "KeyD", "KeyA") = 0
      /\ NetKey(app.keys_down, "Space", "ShiftLeft") = 0 )
    => app.camera.eye = frame.camera_before.eye

\* W, S, A and D and a key that moves nothing were held for the longest frame
ZeroDirectionNoMoveWitness ==
    /\ Moved
    /\ app.keys_down = {"KeyW", "KeyS", "KeyA", "KeyD", "KeyQ"}
    /\ frame.dt = MaxDt
    /\ app.camera.eye = <<0, 0, 3 * Unit>>

\* ---------------------------------------------------------------------
\* C14: the normalized direction law.  Whatever keys are held, the eye is
\* either left in place or displaced by Speed * dt (one length unit is
\* Unit; the fixed-point quotient of the normalization may lose the last
\* unit), never by more: several keys do not move faster than one.  With a
\* level camera, keys that ask for a net direction move the eye for every
\* dt > 0, by the same amount along each axis they ask for and toward the
\* side they ask for.  From the eye (0,0,3) with yaw -pi/2 and pitch 0,
\* KeyW for dt = 1 ends at (0,0,-2).
NormalizedDirectionLaw ==
    Moved =>
      LET before == frame.camera_before
          keys_down == app.keys_down
          dt == frame.dt
          d == Displacement
          forward == Camera_forward(before)
          right == VCross(forward, before.up)
          want == << NetKey(keys_down, "KeyW", "KeyS"),
                     NetKey(keys_down, "KeyD", "KeyA"),
                     NetKey(keys_down, "Space", "ShiftLeft") >>
          got == << VDot(d, forward), VDot(d, right), VDot(d, before.up) >>
      IN  /\ \/ d = Vec3_ZERO
             \/ /\ VDot(d, d) <= (Speed * dt * Unit) * (Speed * dt * Unit)
                /\ VDot(d, d) >= (Speed * dt * (Unit - 1)) * (Speed * dt * (Unit - 1))
          /\ (Cos(before.pitch) # 0 /\ want # <<0, 0, 0>> /\ dt > 0)
             => /\ d # Vec3_ZERO
                /\ \A i \in 1..3 : Sign(got[i]) = want[i]
                /\ \A i, j \in 1..3 :
                     (want[i] # 0 /\ want[j] # 0) => Abs(got[i]) = Abs(got[j])
          /\ ( /\ before.yaw = -1 /\ before.pitch = 0
               /\ keys_down = {"KeyW"} /\ dt = 1 )
             => app.camera.eye = <<0, 0, -2 * Unit>>

\* W and D were held for one second by the camera as App::new builds it:
\* the eye went 5 units along the diagonal, 707/1000 of them on each axis
NormalizedDirectionLawWitness ==
    /\ Moved
    /\ frame.camera_before.yaw = -1 /\ frame.camera_before.pitch = 0
    /\ app.keys_down = {"KeyW", "KeyD"}
    /\ frame.dt = 1
    /\ Displacement = <<Speed * 707, 0, -(Speed * 707)>>

----------------------------------------------------------------------------
(* The redraw loop.  The host delivers RedrawRequested only for a redraw    *)
(* the program asked for with request_redraw(), and it does deliver a       *)
(* requested redraw (ControlFlow::Poll, lib.rs:14): weak fairness of that   *)
(* delivery.  The other events (a close request, keys, mouse buttons,       *)
(* pointer motion, a focus change) are delivered at any time, or never.     *)
(* One window is created.                                                   *)

RedrawRequested == Event("RedrawRequested", NoSize, "", "", <<0, 0>>)

\* the host delivers the redraw the window is waiting for; the surface
\* fails to give a texture, or gives one
redraw_requested ==
    /\ load_state = "Loaded"
    /\ window.redraw_requested
    /\ \/ WindowEventWith({RedrawRequested}, {"Err"})
       \/ WindowEventWith({RedrawRequested}, {"Ok"})

\* the host delivers any other window event, resizes apart
other_window_event ==
    WindowEventFrom({e \in WindowEvents :
                        e.kind \notin {"RedrawRequested", "Resized"}})

\* the host delivers a pointer motion
pointer_motion ==
    DeviceEventFrom({Event("MouseMotion", NoSize, "", "", <<1, 0>>)})

FrameLoopNext ==
    \/ ResumedFrom({PhysicalSize(1, 1)}, 1)
    \/ redraw_requested
    \/ other_window_event
    \/ pointer_motion
    \/ Tick

FrameLoopSpec ==
    Init /\ [][FrameLoopNext]_vars /\ WF_vars(redraw_requested)

\* ---------------------------------------------------------------------
\* C15: once Loaded the redraw loop is continuous.  From the moment
\* resumed() returns with a Loaded state, and after every event handled
\* since, a redraw is pending for the window of a running process; the
\* handler of a RedrawRequested that rendered asks for the next redraw
\* exactly once; and so, the host delivering requested redraws, a frame is
\* presented again and again for as long as the process is Loaded and
\* running, whatever the focus and whatever other events arrive.
RedrawLoopContinuous ==
    /\ []((Loaded /\ Running) => window.redraw_requested)
    /\ [][ (Loaded /\ last_event'.kind = "RedrawRequested" /\ proc' = "running")
           => /\ Cardinality({i \in 1..Len(calls') : calls'[i] = "request_redraw"}) = 1
              /\ RenderOk' ]_vars
    /\ []<>(~(Loaded /\ Running) \/ (Handled("RedrawRequested") /\ RenderOk))

\* a frame was presented by an App without focus, after other events, and
\* the next redraw is pending
RedrawLoopContinuousWitness ==
    /\ Loaded /\ Running
    /\ Handled("RedrawRequested") /\ RenderOk
    /\ ~app.has_focus
    /\ app.keys_down = {"KeyW"}
    /\ now > 0
    /\ window.redraw_requested

\* ---------------------------------------------------------------------
\* C16: the GPU operations of one render() come in a fixed order.  The
\* first is the acquisition of the surface texture.  If it fails nothing
\* else is done: no pass, no submission, no present.  If it succeeds there
\* is exactly one render pass, which clears its target; inside the pass the
\* pipeline, the camera bind group at slot 0, the vertex buffer and the
\* index buffer are bound, each once, before the one draw; the pass is
\* ended before the one submission of one command buffer, and the one
\* present comes after the submission.
RenderOrder ==
    LET ops == frame.ops
        At(name) == {i \in 1..Len(ops) : ops[i].op = name}
        Once(name) == Cardinality(At(name)) = 1
        Pos(name) == CHOOSE i \in At(name) : TRUE
        Before(a, b) == Pos(a) < Pos(b)
    IN  ops # <<>> =>
          /\ ops[1].op = "get_current_texture"
          /\ Once("get_current_texture")
          /\ IF ops[1].arg # "Ok"
             THEN Len(ops) = 1
             ELSE /\ \A name \in { "begin_render_pass", "set_pipeline",
                                   "set_bind_group", "set_vertex_buffer",
                                   "set_index_buffer", "draw",
                                   "end_render_pass", "submit", "present" } :
                        Once(name)
                  /\ Len(ops) = 10
                  /\ ops[Pos("begin_render_pass")].arg.load = "Clear"
                  /\ \A name \in { "set_pipeline", "set_bind_group",
                                   "set_vertex_buffer", "set_index_buffer" } :
                        Before("begin_render_pass", name) /\ Before(name, "draw")
                  /\ ops[Pos("set_bind_group")].arg[1] = 0
                  /\ Before("draw", "end_render_pass")
                  /\ Before("end_render_pass", "submit")
                  /\ ops[Pos("submit")].arg = 1
                  /\ Before("submit", "present")

\* a frame was presented
RenderOrderWitness ==
    /\ Loaded /\ Running
    /\ Handled("RedrawRequested")
    /\ Len(frame.ops) = 10
    /\ frame.ops[10].op = "present"
    /\ frame.ops[1] = Op("get_current_texture", "Ok")

----------------------------------------------------------------------------
(* Mesh::new and Renderer::render on their own: a mesh of any number of     *)
(* vertices with any list of indices into them is built and drawn once.     *)

\* the vertex buffers: vertex k carries k as its x coordinate
RECURSIVE VertexList(_)
VertexList(n) ==
    IF n = 0 THEN <<>>
    ELSE Append(VertexList(n - 1), Vertex(<<n - 1, 0, 0>>, <<1, 1, 1>>))

\* the index lists of at most `len` indices into `n` vertices
RECURSIVE IndexLists(_, _)
IndexLists(n, len) ==
    IF len = 0 THEN {<<>>}
    ELSE IndexLists(n, len - 1)
         \cup {Append(l, i) : l \in {m \in IndexLists(n, len - 1) : Len(m) = len - 1},
                              i \in 0..(n - 1)}

MeshInit ==
    /\ load_state = "Unloaded"
    /\ window = NoWindow
    /\ proc = "running"
    /\ now = 0
    /\ created = 0
    /\ last_event = NoEvent
    /\ calls = <<>>
    /\ frame = [ops |-> <<>>]
    /\ \E n \in 1..MaxVertices :
         \E indices \in IndexLists(n, MaxIndices) :
            app = [ renderer |->
                      [ Renderer_new(PhysicalSize(1, 1),
                                     Camera_new(<<0, 0, 3 * Unit>>, -1, 0,
                                                PhysicalSize(1, 1)))
                        EXCEPT !.mesh = Mesh_new(VertexList(n), indices) ] ]

render ==
    /\ calls = <<>>
    /\ \E acquired \in Outcomes :
         frame' = [ops |-> Renderer_render(app.renderer, acquired).ops]
    /\ calls' = <<"render">>
    /\ UNCHANGED <<load_state, window, app, proc, now, created, last_event>>

MeshNext == render

MeshSpec == MeshInit /\ [][MeshNext]_vars

\* the vertices the draw of a render pass hands to the vertex shader, in
\* order: draw(vertices, instances) reads the bound vertex buffer at
\* vertices.start .. vertices.end - 1 and never reads the index buffer
DrawnVertices(ops) ==
    LET At(name) == CHOOSE i \in 1..Len(ops) : ops[i].op = name
        buffer == ops[At("set_vertex_buffer")].arg[2]
        range == ops[At("draw")].arg.vertices
    IN  [k \in 1..(range[2] - range[1]) |-> buffer[range[1] + k]]

\* what a draw of the full index range (draw_indexed(0..indices.len(), 0,
\* instances)) hands to the vertex shader: the vertex each index names
IndexedVertices(mesh) ==
    [k \in 1..Len(mesh.index_buffer) |->
        mesh.vertex_buffer[mesh.index_buffer[k] + 1]]

\* ---------------------------------------------------------------------
\* C17: for any mesh built by Mesh::new(vertices, indices), a successful
\* render() draws, in one instance, the vertices that the indices name,
\* all indices.len() of them in the order of the index buffer; also when
\* there are more or fewer indices than vertices.
DrawCoversIndexRange ==
    (calls = <<"render">> /\ HasPass(frame.ops))
    => /\ DrawnVertices(frame.ops) = IndexedVertices(app.renderer.mesh)
       /\ \A i \in 1..Len(frame.ops) :
             frame.ops[i].op = "draw" => frame.ops[i].arg.instances = <<0, 1>>

----------------------------------------------------------------------------
(* The keyboard.  One window is created; the host delivers presses and      *)
(* releases of three key codes, of Escape and of an unidentified key, and   *)
(* mouse buttons, in any order.  Every step is the handling of one event,   *)
(* which last_event names.                                                  *)

KeyCodes == {"KeyW", "KeyS", "KeyQ"}

KeyboardEvents ==
    {Event("KeyboardInput", NoSize, k, st, <<0, 0>>) :
        k \in KeyCodes \cup {"Escape", "Unidentified"}, st \in ElementStates}

MouseEvents ==
    {Event("MouseInput", NoSize, "", st, <<0, 0>>) : st \in ElementStates}

keyboard_input == WindowEventFrom(KeyboardEvents)

mouse_input == WindowEventFrom(MouseEvents)

KeyNext == ResumedFrom({PhysicalSize(1, 1)}, 1) \/ keyboard_input \/ mouse_input

KeySpec == Init /\ [][KeyNext]_vars

\* ---------------------------------------------------------------------
\* C18: keys_down is the set of key codes other than Escape whose most
\* recent keyboard event was a press.  It is empty in a new App; the
\* handling of a press of such a key adds it (a key already held stays
\* held, once), the handling of a release removes it, every other event
\* leaves the set as it is; Escape and an unidentified key are never
\* members; and none of this depends on has_focus.
KeysDownTracksPresses ==
    /\ [](Loaded => app.keys_down \cap {"Escape", "Unidentified"} = {})
    /\ [][ (created' # created /\ Loaded') => app'.keys_down = {} ]_vars
    /\ [][ (Loaded /\ created' = created)
           => app'.keys_down =
                IF /\ last_event'.kind = "KeyboardInput"
                   /\ last_event'.key \notin {"Escape", "Unidentified"}
                THEN IF last_event'.state = "Pressed"
                     THEN app.keys_down \cup {last_event'.key}
                     ELSE app.keys_down \ {last_event'.key}
                ELSE app.keys_down ]_vars

\* without focus, KeyW and KeyQ are held and KeyS has just been released
KeysDownTracksPressesWitness ==
    /\ Loaded /\ Running
    /\ ~app.has_focus
    /\ Handled("KeyboardInput")
    /\ last_event.key = "KeyS" /\ last_event.state = "Released"
    /\ app.keys_down = {"KeyW", "KeyQ"}

----------------------------------------------------------------------------
(* The frame clock.  One window is created; frames are drawn, the pointer   *)
(* is captured and released, KeyW is pressed, the pointer moves, and time   *)
(* passes for up to MaxDt seconds.                                          *)

ClockEvents ==
    { RedrawRequested,
      Event("MouseInput", NoSize, "", "Pressed", <<0, 0>>),
      Event("KeyboardInput", NoSize, "Escape", "Pressed", <<0, 0>>),
      Event("KeyboardInput", NoSize, "KeyW", "Pressed", <<0, 0>>) }

ClockNext ==
    \/ ResumedFrom({PhysicalSize(1, 1)}, 1)
    \/ WindowEventFrom(ClockEvents)
    \/ pointer_motion
    \/ TickTo(MaxDt)

ClockSpec == Init /\ [][ClockNext]_vars

\* this step is the handling of a RedrawRequested whose render succeeded
UpdateStep ==
    /\ Loaded
    /\ last_event'.kind = "RedrawRequested"
    /\ now' = now
    /\ proc' = "running"

\* ---------------------------------------------------------------------
\* C19: dt is the time between two consecutive updates and nothing else.
\* A new App has delta_time 0 and last_frame at its creation.  Every
\* update, with focus or without, sets last_frame to the present time and
\* delta_time to the time since the previous update, and moves the eye by
\* no more than Speed times that one frame's time; no other event changes
\* last_frame or delta_time.  A pointer motion turns the camera by its
\* delta scaled with delta_time, the dt of the last completed update.
DtIsOneFrame ==
    /\ [][ (created' # created /\ Loaded')
           => app'.delta_time = 0 /\ app'.last_frame = now ]_vars
    /\ [][ UpdateStep
           => /\ app'.last_frame = now
              /\ app'.delta_time = now - app.last_frame
              /\ LET d == VSub(app'.camera.eye, app.camera.eye)
                     one_frame == Speed * Unit * (now - app.last_frame)
                 IN  /\ VDot(d, d) <= one_frame * one_frame
                     /\ (app.has_focus /\ app.keys_down = {"KeyW"})
                        => VDot(d, d) = one_frame * one_frame ]_vars
    /\ [][ (Loaded /\ created' = created /\ ~UpdateStep)
           => /\ app'.last_frame = app.last_frame
              /\ app'.delta_time = app.delta_time ]_vars
    /\ [][ ( /\ Loaded /\ app.has_focus
             /\ last_event'.kind = "MouseMotion" /\ now' = now )
           => /\ app'.camera.yaw - app.camera.yaw
                    = last_event'.delta[1] * Sensitivity * app.delta_time
              /\ app.camera.pitch - app'.camera.pitch
                    = last_event'.delta[2] * Sensitivity * app.delta_time ]_vars

\* two seconds after the App was built, with the pointer captured and KeyW
\* held, an update measured one second, the time since the update before
\* it, and the eye is one second of movement from where it started
DtIsOneFrameWitness ==
    /\ Loaded /\ Running
    /\ Handled("RedrawRequested") /\ RenderOk
    /\ now = 2
    /\ app.last_frame = 2
    /\ app.delta_time = 1
    /\ app.has_focus
    /\ app.keys_down = {"KeyW"}
    /\ app.camera.eye = <<0, 0, 3 * Unit - Speed * Unit>>

\* ---------------------------------------------------------------------
\* C20: the cursor state matches has_focus.  In every Loaded state of a
\* running process the cursor is locked and hidden if has_focus holds and
\* released and visible if it does not: in the state resumed() builds, and
\* after any presses of mouse buttons and of Escape.
CursorMatchesFocus ==
    (Loaded /\ Running)
    => IF app.has_focus
       THEN window.cursor_grab = "Locked" /\ ~window.cursor_visible
       ELSE window.cursor_grab = "None" /\ window.cursor_visible

\* the pointer is captured and a key event has been handled since
CursorMatchesFocusWitness ==
    /\ Loaded /\ Running
    /\ app.has_focus
    /\ window.cursor_grab = "Locked" /\ ~window.cursor_visible
    /\ Handled("KeyboardInput") /\ last_event.key = "KeyW"

\* ---------------------------------------------------------------------
\* C21: an Unloaded program ignores every window event and every device
\* event.  A step taken from the Unloaded state that is not `resumed`
\* leaves the state Unloaded and the process running, builds no window and
\* no App, and makes no call: no render, no update, no exit of the event
\* loop, no request for a redraw, no GPU operation.
UnloadedIgnoresEvents ==
    [][ (load_state = "Unloaded" /\ created' = created)
        => /\ load_state' = "Unloaded"
           /\ proc' = "running"
           /\ window' = NoWindow
           /\ app' = NoApp
           /\ calls' = <<>>
           /\ frame'.ops = <<>> /\ frame'.drawn = <<>> ]_vars

\* a close request was delivered, after some time, to a program that has
\* not been resumed: it is still Unloaded and still running
UnloadedIgnoresEventsWitness ==
    /\ load_state = "Unloaded"
    /\ proc = "running"
    /\ last_event.kind = "CloseRequested"
    /\ now > 0
    /\ created = 0
    /\ calls = <<>>

\* ---------------------------------------------------------------------
\* C22: in every Loaded state the camera's aspect_ratio is the quotient of
\* the stored surface_config.width and surface_config.height.  Both come
\* from the size of the window in App::new; a Resized event writes both,
\* or, when a dimension is zero, panics before it has written either.
AspectMatchesSurface ==
    Loaded =>
        /\ app.camera.aspect_ratio[2] > 0
        /\ app.renderer.surface_config.height > 0
        /\ app.camera.aspect_ratio[1] * app.renderer.surface_config.height
              = app.camera.aspect_ratio[2] * app.renderer.surface_config.width

\* a frame was drawn after the window, which no `resumed` creates higher
\* than wide, had been resized to 1 wide and 2 high
AspectMatchesSurfaceWitness ==
    /\ Loaded /\ Running
    /\ Handled("RedrawRequested") /\ RenderOk
    /\ window.inner_size = PhysicalSize(1, 2)
    /\ app.renderer.surface_config = [width |-> 1, height |-> 2]
    /\ app.camera.aspect_ratio = <<1, 2>>

=============================================================================
